---- MODULE Spec2Model ----
(***************************************************************************)
(* Model of bot.py: a Telegram bot that opens one poll on a schedule or on *)
(* /poll, records poll answers, and closes the poll with a summary.        *)
(*                                                                         *)
(* Every coroutine runs on one asyncio event loop, so the code between two *)
(* awaits is one atomic step.  Three tasks can be in flight together: the  *)
(* scheduled open job, the scheduled close job, and the dispatcher, which  *)
(* processes updates (/poll, /close, /wea, poll answers) one at a time and *)
(* awaits each handler to its end before taking the next update.           *)
(*                                                                         *)
(* The messaging platform: send_poll creates a poll and answers with its   *)
(* ids, or raises and creates none; stop_poll stops an open poll, and      *)
(* raises for a poll that is already stopped or when the request fails;    *)
(* every other request returns or raises.  Members answer polls the bot    *)
(* created while they are open, one option at most (the poll is            *)
(* single-answer); an answer is handled when its turn comes in the         *)
(* dispatcher, which may be after the poll was stopped.                    *)
(*                                                                         *)
(* Strings of the source that are not ASCII are written with ASCII         *)
(* stand-ins; each definition names the text it stands for.                *)
(***************************************************************************)
EXTENDS Integers, Sequences, FiniteSets, TLC

(* ---- bounds ---- *)
\* polls the messaging platform creates during a run
MaxPolls == 2
\* chat members who vote
NumUsers == 2
\* poll answers handled during a run
MaxVotes == 2
\* poll answers handled during a run of the scheduled jobs alone
MaxRevotes == 3

(* ---- values of the program ---- *)
\* len(POLL_OPTIONS)
NumOptions == 2
\* POLL_OPTIONS: "play" stands for the basketball option, "nope" for the cross-mark one
POLL_OPTIONS == <<"play", "nope">>
\* the status wea_handler takes for success
HTTP_OK == 200

None == 0
PollIds == 1..MaxPolls
Users == 1..NumUsers
OptionIds == 0..(NumOptions - 1)
\* status codes the image server answers with
StatusCodes == {200, 404, 500}

OpenTasks == {"sched_open", "dispatcher"}
CloseTasks == {"sched_close", "dispatcher"}
Tasks == {"sched_open", "sched_close", "dispatcher"}

VARIABLES
    active_poll_info,    \* {"message_id": ..., "poll_id": ...}
    poll_answers,        \* defaultdict: poll_id -> option_index -> list of user_id
    user_display_names,  \* user_id -> label
    pc,                  \* the await each task is suspended at ("idle": not running)
    message,             \* start_poll_by_bot local: the Message send_poll answers with
    poll_id,             \* stop_poll_by_bot local
    message_id,          \* stop_poll_by_bot local
    summary,             \* stop_poll_by_bot local
    status_code,         \* wea_handler: response.status_code
    next_poll,           \* platform: polls created so far
    open_polls,          \* platform: polls not stopped yet
    logged,              \* the record the last step wrote to the log, if any
    raised,              \* the last step ended a coroutine with an exception nothing caught
    votes_handled,       \* history: poll answers handled so far
    last_vote,           \* history: per poll and user, option_ids of the latest answer handled
    vote_time,           \* history: per poll and user, which answer of the run that one was
    created_since_close, \* history: polls created since the last successful close
    start_state,         \* history: the three stores as a close read them at its start,
                         \* forgotten once another task changes them under the close
    failed_close         \* history: ActivePoll's poll_id when a close last failed, None
                         \* when no close failed since the last successful one

vars == <<active_poll_info, poll_answers, user_display_names, pc, message, poll_id,
          message_id, summary, status_code, next_poll, open_polls, logged, raised,
          votes_handled, last_vote, vote_time, created_since_close, start_state,
          failed_close>>

stores == <<active_poll_info, poll_answers, user_display_names>>
platform == <<next_poll, open_polls>>
close_locals == <<poll_id, message_id, summary>>
history == <<votes_handled, last_vote, vote_time, created_since_close, start_state,
             failed_close>>

(* ---- dictionaries ---- *)
EmptyDict == [k \in {} |-> None]
Put(d, k, v) == [x \in (DOMAIN d) \cup {k} |-> IF x = k THEN v ELSE d[x]]
\* variant: the del of line 109 left out
DelNothing(d, k) == d
Del(d, k) == [x \in (DOMAIN d) \ {k} |-> d[x]]
\* dict.get(k, default)
Get(d, k, default) == IF k \in DOMAIN d THEN d[k] ELSE default
\* defaultdict.__getitem__: a missing key is inserted with the default
Touch(d, k, default) == IF k \in DOMAIN d THEN d ELSE Put(d, k, default)

\* the message id the platform gives the message that carries poll p
MessageIdOf(p) == MaxPolls + p

NoMessage == [message_id |-> None, poll_id |-> None]
NoStart == [active_poll_info |-> NoMessage, poll_answers |-> EmptyDict,
            user_display_names |-> EmptyDict]

Init ==
    /\ active_poll_info = [message_id |-> None, poll_id |-> None]
    /\ poll_answers = EmptyDict
    /\ user_display_names = EmptyDict
    /\ pc = [t \in Tasks |-> "idle"]
    /\ message = [t \in OpenTasks |-> NoMessage]
    /\ poll_id = [t \in CloseTasks |-> None]
    /\ message_id = [t \in CloseTasks |-> None]
    /\ summary = [t \in CloseTasks |-> ""]
    /\ status_code = None
    /\ next_poll = 0
    /\ open_polls = {}
    /\ logged = "nothing"
    /\ raised = FALSE
    /\ votes_handled = 0
    /\ last_vote = [p \in PollIds |-> [u \in Users |-> <<>>]]
    /\ vote_time = [p \in PollIds |-> [u \in Users |-> 0]]
    /\ created_since_close = 0
    /\ start_state = [t \in CloseTasks |-> NoStart]
    /\ failed_close = None

\* a step of task self changed the stores: the closes of the other tasks no
\* longer run alone
Interfering(self) ==
    [t \in CloseTasks |-> IF t = self THEN start_state[t] ELSE NoStart]

(* ---- start_poll_by_bot ---- *)
\* active_poll_info["poll_id"] is not None
PollActive(info) == info.poll_id # None

\* variant: the return of line 51 left out, so a refused open goes on to send_poll
StartPollEnterNoReturn(self) ==
    /\ raised' = FALSE
    /\ IF PollActive(active_poll_info)
       THEN logged' = "poll_in_progress"
       ELSE logged' = "nothing"
    /\ pc' = [pc EXCEPT ![self] = "send_poll"]
    /\ UNCHANGED <<stores, message, close_locals, status_code, platform, history>>

\* lines 43-53: the guard, then the first await of the branch taken
StartPollEnter(self) ==
    /\ raised' = FALSE
    /\ IF PollActive(active_poll_info)
       THEN /\ logged' = "poll_in_progress"
            /\ pc' = [pc EXCEPT ![self] = "notify"]
       ELSE /\ pc' = [pc EXCEPT ![self] = "send_poll"]
            /\ logged' = "nothing"
    /\ UNCHANGED <<stores, message, close_locals, status_code, platform, history>>

\* the scheduler's weekly open job (lines 142-145)
ScheduledOpen ==
    /\ pc["sched_open"] = "idle"
    /\ StartPollEnter("sched_open")

\* lines 121-125; it is the first handler registered for /poll, so the lambda of
\* line 135 never gets the update
poll_handler ==
    /\ pc["dispatcher"] = "idle"
    /\ IF PollActive(active_poll_info)
       THEN /\ pc' = [pc EXCEPT !["dispatcher"] = "poll_reply"]
            /\ logged' = "nothing"
            /\ raised' = FALSE
            /\ UNCHANGED <<stores, message, close_locals, status_code, platform,
                           history>>
       ELSE StartPollEnter("dispatcher")

\* the platform serves the send_poll request: a new poll is in the chat
SendPollCreate(self) ==
    /\ raised' = FALSE
    /\ pc[self] = "send_poll"
    /\ message[self] = NoMessage
    /\ next_poll < MaxPolls
    /\ next_poll' = next_poll + 1
    /\ open_polls' = open_polls \cup {next_poll + 1}
    /\ message' = [message EXCEPT ![self] = [message_id |-> MessageIdOf(next_poll + 1),
                                             poll_id |-> next_poll + 1]]
    /\ created_since_close' = created_since_close + 1
    /\ logged' = "nothing"
    /\ UNCHANGED <<stores, pc, close_locals, status_code, votes_handled,
                   last_vote, vote_time, start_state, failed_close>>

\* variant: line 61 left out, only message_id is recorded
SendPollReturnNoPollId(self) ==
    /\ raised' = FALSE
    /\ pc[self] = "send_poll"
    /\ message[self] # NoMessage
    /\ active_poll_info' = [active_poll_info EXCEPT
                               !.message_id = message[self].message_id]
    /\ logged' = "poll_started"
    /\ message' = [message EXCEPT ![self] = NoMessage]
    /\ pc' = [pc EXCEPT ![self] = "idle"]
    /\ start_state' = Interfering(self)
    /\ UNCHANGED <<poll_answers, user_display_names, close_locals, status_code, platform,
                   votes_handled, last_vote, vote_time, created_since_close, failed_close>>

\* lines 60-62: the await of send_poll resumes with the Message
SendPollReturn(self) ==
    /\ raised' = FALSE
    /\ pc[self] = "send_poll"
    /\ message[self] # NoMessage
    /\ active_poll_info' = [message_id |-> message[self].message_id,
                            poll_id |-> message[self].poll_id]
    /\ logged' = "poll_started"
    /\ message' = [message EXCEPT ![self] = NoMessage]
    /\ pc' = [pc EXCEPT ![self] = "idle"]
    /\ start_state' = Interfering(self)
    /\ UNCHANGED <<poll_answers, user_display_names, close_locals, status_code, platform,
                   votes_handled, last_vote, vote_time, created_since_close, failed_close>>

\* send_poll raises (the request did not reach the platform); nothing catches it
\* in start_poll_by_bot, so the coroutine ends at line 53
SendPollRaise(self) ==
    /\ raised' = TRUE
    /\ pc[self] = "send_poll"
    /\ message[self] = NoMessage
    /\ pc' = [pc EXCEPT ![self] = "idle"]
    /\ logged' = "nothing"
    /\ UNCHANGED <<stores, message, close_locals, status_code, platform, history>>

\* lines 48, 51: the notice is delivered, then return
NotifyReturn(self) ==
    /\ raised' = FALSE
    /\ pc[self] = "notify"
    /\ pc' = [pc EXCEPT ![self] = "idle"]
    /\ logged' = "nothing"
    /\ UNCHANGED <<stores, message, close_locals, status_code, platform, history>>

\* variant: the try/except of lines 46-50 left out
NotifyRaiseUncaught(self) ==
    /\ raised' = TRUE
    /\ pc[self] = "notify"
    /\ logged' = "nothing"
    /\ pc' = [pc EXCEPT ![self] = "idle"]
    /\ UNCHANGED <<stores, message, close_locals, status_code, platform, history>>

\* lines 49-51: send_message raises, the exception is logged, then return
NotifyRaise(self) ==
    /\ raised' = FALSE
    /\ pc[self] = "notify"
    /\ logged' = "notify_skipped"
    /\ pc' = [pc EXCEPT ![self] = "idle"]
    /\ UNCHANGED <<stores, message, close_locals, status_code, platform, history>>

\* lines 123-124: reply_text returns or raises; either way poll_handler ends
PollReplyDone ==
    /\ raised' \in BOOLEAN
    /\ pc["dispatcher"] = "poll_reply"
    /\ pc' = [pc EXCEPT !["dispatcher"] = "idle"]
    /\ logged' = "nothing"
    /\ UNCHANGED <<stores, message, close_locals, status_code, platform, history>>

(* ---- handle_poll_answer ---- *)
\* line 72: "@" + username when the user has one, else the full name
DisplayName(user) ==
    IF user.username # "" THEN "@" \o user.username ELSE user.full_name

\* the User object the platform attaches to an answer of chat member u: the
\* odd members have a username, the even ones only a name
UserOf(u) ==
    [id |-> u,
     username |-> IF u % 2 = 1 THEN "user" \o ToString(u) ELSE "",
     full_name |-> "Member " \o ToString(u)]

\* x in list
Contains(list, x) == \E k \in 1..Len(list) : list[k] = x

\* list.remove(x): drops the first x
RECURSIVE Remove(_, _)
Remove(list, x) ==
    IF list = <<>> THEN <<>>
    ELSE IF Head(list) = x THEN Tail(list)
    ELSE <<Head(list)>> \o Remove(Tail(list), x)

\* variant: the loop of lines 75-77 left out
RemoveOldKeeps(options, user_id) == options

\* lines 75-77 on the option dict of one poll
RemoveOld(options, user_id) ==
    [i \in DOMAIN options |->
        IF Contains(options[i], user_id) THEN Remove(options[i], user_id) ELSE options[i]]

\* variant: lines 80-81 with insert(0, user_id) for append(user_id)
RECURSIVE AddNewInFront(_, _, _, _)
AddNewInFront(options, user_id, selected, k) ==
    IF k > Len(selected) THEN options
    ELSE AddNewInFront(Put(options, selected[k],
                           <<user_id>> \o Get(options, selected[k], <<>>)),
                       user_id, selected, k + 1)

\* variant: the loop of lines 80-81 left out
AddNewNothing(options, user_id, selected, k) == options

\* lines 80-81 on the option dict of one poll, for selected[k..]
RECURSIVE AddNew(_, _, _, _)
AddNew(options, user_id, selected, k) ==
    IF k > Len(selected) THEN options
    ELSE AddNew(Put(options, selected[k],
                    Append(Get(options, selected[k], <<>>), user_id)),
                user_id, selected, k + 1)

\* lines 75-81 on poll_answers; poll_answers[poll_id] inserts a missing poll_id
RecordAnswer(answers, p, user_id, selected) ==
    Put(answers, p, AddNew(RemoveOld(Get(answers, p, EmptyDict), user_id),
                           user_id, selected, 1))

\* option_ids of an answer to a single-answer poll: one option, or none on retraction
Selections == {<<>>} \cup {<<i>> : i \in OptionIds}

\* variant: line 72 left out, the label of the user is not stored
PollAnswerNoName(p, u, selected) ==
    LET poll_answer == [poll_id |-> p, user |-> UserOf(u), option_ids |-> selected]
        user_id == poll_answer.user.id
    IN /\ user_display_names' = user_display_names
       /\ poll_answers' = RecordAnswer(poll_answers, poll_answer.poll_id, user_id,
                                       poll_answer.option_ids)
       /\ last_vote' = [last_vote EXCEPT ![poll_answer.poll_id][user_id] =
                                            poll_answer.option_ids]
       /\ vote_time' = [vote_time EXCEPT ![poll_answer.poll_id][user_id] =
                                            votes_handled + 1]

\* lines 65-83 for the answer of member u to poll p
PollAnswer(p, u, selected) ==
    LET poll_answer == [poll_id |-> p, user |-> UserOf(u), option_ids |-> selected]
        user_id == poll_answer.user.id
    IN /\ user_display_names' =
             Put(user_display_names, user_id, DisplayName(poll_answer.user))
       /\ poll_answers' = RecordAnswer(poll_answers, poll_answer.poll_id, user_id,
                                       poll_answer.option_ids)
       /\ last_vote' = [last_vote EXCEPT ![poll_answer.poll_id][user_id] =
                                            poll_answer.option_ids]
       /\ vote_time' = [vote_time EXCEPT ![poll_answer.poll_id][user_id] =
                                            votes_handled + 1]

\* the answer of a chat member to a poll the bot created is handled; the update
\* waits its turn behind the dispatcher's other updates, so the poll may be
\* stopped by then.  The handler has no await: it is one step of the dispatcher.
\* limit: the answers handled during the run
handle_poll_answer(limit) ==
    /\ raised' = FALSE
    /\ pc["dispatcher"] = "idle"
    /\ votes_handled < limit
    /\ votes_handled' = votes_handled + 1
    /\ \E p \in 1..next_poll, u \in Users, selected \in Selections :
          PollAnswer(p, u, selected)
    /\ logged' = "answer_recorded"
    /\ start_state' = Interfering("dispatcher")
    /\ UNCHANGED <<active_poll_info, pc, message, close_locals, status_code, platform,
                   created_since_close, failed_close>>

(* ---- stop_poll_by_bot ---- *)
\* variant: the guard of line 90 never holds
FalsyNever(x) == FALSE

\* not x
Falsy(x) == x = None

\* names joined with the separator of line 104 (", " stands for the ideographic comma)
RECURSIVE Join(_)
Join(names) ==
    IF names = <<>> THEN ""
    ELSE IF Len(names) = 1 THEN names[1]
    ELSE names[1] \o ", " \o Join(Tail(names))

\* variant: line 104 without the placeholder for an empty list of names
SummaryLineNoPlaceholder(text, user_ids, names) ==
    text \o "(" \o ToString(Len(user_ids)) \o "): " \o Join(names) \o "\n"

\* line 104: one line of the summary ("none" stands for the placeholder of the source)
SummaryLine(text, user_ids, names) ==
    text \o "(" \o ToString(Len(user_ids)) \o "): "
         \o (IF Join(names) # "" THEN Join(names) ELSE "none") \o "\n"

\* variant: enumerate counting from 1, so option k is given the list of index k
RECURSIVE SummaryLinesFromOne(_, _, _, _)
SummaryLinesFromOne(options, tally, names, k) ==
    IF k > Len(options) THEN ""
    ELSE LET user_ids == Get(tally, k, <<>>)
         IN SummaryLine(options[k], user_ids,
                        [n \in 1..Len(user_ids) |-> Get(names, user_ids[n], "unknown")])
            \o SummaryLinesFromOne(options, tally, names, k + 1)

\* lines 101-104 for options[k..]; option k of the result has index k - 1
RECURSIVE SummaryLines(_, _, _, _)
SummaryLines(options, tally, names, k) ==
    IF k > Len(options) THEN ""
    ELSE LET user_ids == Get(tally, k - 1, <<>>)
         IN SummaryLine(options[k], user_ids,
                        [n \in 1..Len(user_ids) |-> Get(names, user_ids[n], "unknown")])
            \o SummaryLines(options, tally, names, k + 1)

\* lines 100-104
BuildSummary(result, tally, names) ==
    "Result: " \o result.question \o "\n\n" \o SummaryLines(result.options, tally, names, 1)

\* the stopped Poll the platform answers stop_poll with
StoppedPoll == [question |-> "wanna play?", options |-> POLL_OPTIONS]

\* lines 87-98: read ActivePoll, the guard, then the await of stop_poll
StopPollEnter(self) ==
    /\ raised' = FALSE
    /\ pc[self] = "idle"
    /\ IF Falsy(active_poll_info.poll_id) \/ Falsy(active_poll_info.message_id)
       THEN /\ logged' = "no_active_poll"
            /\ UNCHANGED <<pc, close_locals, start_state>>
       ELSE /\ poll_id' = [poll_id EXCEPT ![self] = active_poll_info.poll_id]
            /\ message_id' = [message_id EXCEPT ![self] = active_poll_info.message_id]
            /\ pc' = [pc EXCEPT ![self] = "stop_poll"]
            /\ start_state' = [start_state EXCEPT ![self] =
                                 [active_poll_info |-> active_poll_info,
                                  poll_answers |-> poll_answers,
                                  user_display_names |-> user_display_names]]
            /\ logged' = "nothing"
            /\ UNCHANGED summary
    /\ UNCHANGED <<stores, message, status_code, platform, votes_handled, last_vote,
                   vote_time, created_since_close, failed_close>>

\* the platform stops the poll of message_id; lines 100-106: the summary is built
\* (poll_answers[poll_id] inserts a missing poll_id) and send_message is awaited
StopPollReturn(self) ==
    /\ raised' = FALSE
    /\ pc[self] = "stop_poll"
    /\ \E p \in open_polls :
          /\ MessageIdOf(p) = message_id[self]
          /\ open_polls' = open_polls \ {p}
    /\ poll_answers' = Touch(poll_answers, poll_id[self], EmptyDict)
    /\ summary' = [summary EXCEPT ![self] =
                     BuildSummary(StoppedPoll, poll_answers'[poll_id[self]],
                                  user_display_names)]
    /\ pc' = [pc EXCEPT ![self] = "send_summary"]
    /\ start_state' = IF poll_answers' # poll_answers THEN Interfering(self) ELSE start_state
    /\ logged' = "nothing"
    /\ UNCHANGED <<active_poll_info, user_display_names, message, poll_id, message_id,
                   status_code, next_poll, votes_handled, last_vote, vote_time,
                   created_since_close, failed_close>>

\* the coroutine of a close ends: its locals are dropped
CloseEnds(self) ==
    /\ pc' = [pc EXCEPT ![self] = "idle"]
    /\ poll_id' = [poll_id EXCEPT ![self] = None]
    /\ message_id' = [message_id EXCEPT ![self] = None]
    /\ summary' = [summary EXCEPT ![self] = ""]

\* lines 113-114: stop_poll raises (the platform refuses a poll that is already
\* stopped, or the request fails); the exception is logged
StopPollRaise(self) ==
    /\ raised' = FALSE
    /\ pc[self] = "stop_poll"
    /\ logged' = "close_failed"
    /\ CloseEnds(self)
    /\ start_state' = [start_state EXCEPT ![self] = NoStart]
    /\ failed_close' = active_poll_info.poll_id
    /\ UNCHANGED <<stores, message, status_code, platform, votes_handled, last_vote,
                   vote_time, created_since_close>>

\* lines 106-111: the summary is delivered, then the tally entry is deleted and
\* ActivePoll cleared; a KeyError of the del is caught by line 113
SendSummaryReturn(self) ==
    /\ raised' = FALSE
    /\ pc[self] = "send_summary"
    /\ IF poll_id[self] \in DOMAIN poll_answers
       THEN /\ poll_answers' = Del(poll_answers, poll_id[self])
            /\ active_poll_info' = [message_id |-> None, poll_id |-> None]
            /\ logged' = "nothing"
            /\ last_vote' = [last_vote EXCEPT ![poll_id[self]] = [u \in Users |-> <<>>]]
            /\ vote_time' = [vote_time EXCEPT ![poll_id[self]] = [u \in Users |-> 0]]
            /\ created_since_close' = 0
            /\ start_state' = [t \in CloseTasks |-> NoStart]
            /\ failed_close' = None
       ELSE /\ logged' = "close_failed"
            /\ start_state' = [start_state EXCEPT ![self] = NoStart]
            /\ failed_close' = active_poll_info.poll_id
            /\ UNCHANGED <<active_poll_info, poll_answers, last_vote, vote_time,
                           created_since_close>>
    /\ CloseEnds(self)
    /\ UNCHANGED <<user_display_names, message, status_code, platform, votes_handled>>

\* lines 113-114: send_message raises; the exception is logged
SendSummaryRaise(self) ==
    /\ raised' = FALSE
    /\ pc[self] = "send_summary"
    /\ logged' = "close_failed"
    /\ CloseEnds(self)
    /\ start_state' = [start_state EXCEPT ![self] = NoStart]
    /\ failed_close' = active_poll_info.poll_id
    /\ UNCHANGED <<stores, message, status_code, platform, votes_handled, last_vote,
                   vote_time, created_since_close>>

\* the scheduler's weekly close job (lines 147-150)
ScheduledClose == StopPollEnter("sched_close")

\* /close (line 136): the dispatcher awaits the task the lambda creates
close_handler == StopPollEnter("dispatcher")

(* ---- wea_handler ---- *)
\* variant: line 33 takes every status from 200 up for success
WeaReplyFrom200(status) ==
    IF status >= HTTP_OK THEN "reply_photo" ELSE "reply_load_failed"

\* lines 33-36: the reply chosen for a response
WeaReply(status) ==
    IF status = HTTP_OK THEN "reply_photo" ELSE "reply_load_failed"

\* lines 32-36: requests.get answers (it blocks, the loop runs nothing else), then
\* the await of the reply
wea_handler ==
    /\ raised' = FALSE
    /\ pc["dispatcher"] = "idle"
    /\ \E status \in StatusCodes :
          /\ status_code' = status
          /\ pc' = [pc EXCEPT !["dispatcher"] = WeaReply(status)]
    /\ logged' = "nothing"
    /\ UNCHANGED <<stores, message, close_locals, platform, history>>

\* lines 37-39: requests.get raises; the exception is logged and the generic
\* error text is sent
WeaFetchRaise ==
    /\ raised' = FALSE
    /\ pc["dispatcher"] = "idle"
    /\ logged' = "wea_error"
    /\ pc' = [pc EXCEPT !["dispatcher"] = "reply_error"]
    /\ UNCHANGED <<stores, message, close_locals, status_code, platform, history>>

\* the reply of line 34 or 36 is delivered
WeaReplyReturn ==
    /\ raised' = FALSE
    /\ pc["dispatcher"] \in {"reply_photo", "reply_load_failed"}
    /\ status_code' = None
    /\ pc' = [pc EXCEPT !["dispatcher"] = "idle"]
    /\ logged' = "nothing"
    /\ UNCHANGED <<stores, message, close_locals, platform, history>>

\* lines 37-39: the reply of line 34 or 36 raises inside the try
WeaReplyRaise ==
    /\ raised' = FALSE
    /\ pc["dispatcher"] \in {"reply_photo", "reply_load_failed"}
    /\ status_code' = None
    /\ logged' = "wea_error"
    /\ pc' = [pc EXCEPT !["dispatcher"] = "reply_error"]
    /\ UNCHANGED <<stores, message, close_locals, platform, history>>

\* line 39: the error text is delivered, or reply_text raises out of the handler
WeaErrorDone ==
    /\ raised' \in BOOLEAN
    /\ pc["dispatcher"] = "reply_error"
    /\ pc' = [pc EXCEPT !["dispatcher"] = "idle"]
    /\ logged' = "nothing"
    /\ UNCHANGED <<stores, message, close_locals, status_code, platform, history>>

Next ==
    \/ ScheduledOpen
    \/ poll_handler
    \/ \E t \in OpenTasks : SendPollCreate(t) \/ SendPollReturn(t) \/ SendPollRaise(t)
    \/ NotifyReturn("sched_open")
    \/ NotifyRaise("sched_open")
    \/ PollReplyDone
    \/ handle_poll_answer(MaxVotes)
    \/ ScheduledClose
    \/ close_handler
    \/ \E t \in CloseTasks :
          StopPollReturn(t) \/ StopPollRaise(t) \/ SendSummaryReturn(t) \/ SendSummaryRaise(t)
    \/ wea_handler
    \/ WeaFetchRaise
    \/ WeaReplyReturn
    \/ WeaReplyRaise
    \/ WeaErrorDone

Spec == Init /\ [][Next]_vars

\* the bot left to its two scheduled jobs: nobody sends a command, members only
\* answer the polls, and more answers are followed than under Next
ScheduledNext ==
    \/ ScheduledOpen
    \/ SendPollCreate("sched_open")
    \/ SendPollReturn("sched_open")
    \/ SendPollRaise("sched_open")
    \/ NotifyReturn("sched_open")
    \/ NotifyRaise("sched_open")
    \/ handle_poll_answer(MaxRevotes)
    \/ ScheduledClose
    \/ StopPollReturn("sched_close")
    \/ StopPollRaise("sched_close")
    \/ SendSummaryReturn("sched_close")
    \/ SendSummaryRaise("sched_close")

ScheduledSpec == Init /\ [][ScheduledNext]_vars

(* ---- claims ---- *)
\* the users in a list of the tally
Voters(list) == {list[k] : k \in 1..Len(list)}
\* the options of a poll's tally whose list holds user u
OptionsOf(tally, u) == {i \in DOMAIN tally : u \in Voters(tally[i])}
\* the awaits of an open that was refused, and all awaits of an open
RefusedPcs == {"notify", "poll_reply"}
OpenPcs == {"notify", "poll_reply", "send_poll"}
ClosePcs == {"stop_poll", "send_summary"}
Cleared == [message_id |-> None, poll_id |-> None]

\* C1: an open that starts while ActivePoll.pollId is set takes the refusing
\* branch; neither its first step nor its last changes ActivePoll or the polls
\* of the platform, and it never awaits send_poll.
C1_OpenWhileActiveIsRefused ==
    [][\A t \in OpenTasks :
         /\ (pc[t] = "idle" /\ pc'[t] \in OpenPcs /\ active_poll_info.poll_id # None)
                => /\ pc'[t] \in RefusedPcs
                   /\ UNCHANGED <<active_poll_info, next_poll, open_polls>>
         /\ (pc[t] \in RefusedPcs /\ pc'[t] # pc[t])
                => /\ pc'[t] = "idle"
                   /\ UNCHANGED <<active_poll_info, next_poll, open_polls>>]_vars

\* both opens are refused at once, the poll still active
C1_Witness ==
    /\ pc["sched_open"] = "notify"
    /\ pc["dispatcher"] = "poll_reply"
    /\ active_poll_info = [message_id |-> MessageIdOf(1), poll_id |-> 1]
    /\ next_poll = 1

\* C2: the guard prevents two concurrent polls: at most one poll is created
\* between two successful closes, and every poll open in the chat is the
\* ActivePoll or still awaits its send_poll response (none was overwritten).
C2_GuardPreventsConcurrentPolls ==
    /\ created_since_close <= 1
    /\ \A p \in open_polls :
          \/ active_poll_info.poll_id = p
          \/ \E t \in OpenTasks : message[t].poll_id = p

\* C3: last vote wins: for every poll of the tally and every user, the options
\* whose list holds the user are exactly the option_ids of the user's latest
\* answer to that poll.
C3_LastVoteWins ==
    \A p \in DOMAIN poll_answers : \A u \in Users :
        OptionsOf(poll_answers[p], u) =
            {last_vote[p][u][k] : k \in 1..Len(last_vote[p][u])}

\* member 1 answered option 0, then option 1; nobody else answered
C3_Witness ==
    /\ votes_handled = 2
    /\ DOMAIN user_display_names = {1}
    /\ \E p \in DOMAIN poll_answers :
          /\ DOMAIN poll_answers[p] = {0, 1}
          /\ poll_answers[p][0] = <<>>
          /\ poll_answers[p][1] = <<1>>

\* C4: in every poll of the tally a user is in at most one option list.
C4_AtMostOneOptionPerUser ==
    \A p \in DOMAIN poll_answers : \A u \in Users :
        Cardinality(OptionsOf(poll_answers[p], u)) <= 1

\* two members answered the same poll, one per option
C4_Witness ==
    \E p \in DOMAIN poll_answers :
        /\ DOMAIN poll_answers[p] = {0, 1}
        /\ poll_answers[p][0] = <<2>>
        /\ poll_answers[p][1] = <<1>>

\* C5: a close whose stop request succeeded always finds the tally entry of its
\* poll (the del cannot raise), and when its summary send succeeds too, the
\* entry is gone and ActivePoll has pollId and messageId cleared.
C5_SuccessfulCloseClears ==
    [][\A t \in CloseTasks :
         pc[t] = "send_summary"
            => /\ poll_id[t] \in DOMAIN poll_answers
               /\ (pc'[t] = "idle" /\ logged' = "nothing")
                     => /\ poll_id[t] \notin DOMAIN poll_answers'
                        /\ active_poll_info'.poll_id = None
                        /\ active_poll_info'.message_id = None]_vars

\* the only poll was closed after two answers: nothing is left of it
C5_Witness ==
    /\ next_poll = 1
    /\ open_polls = {}
    /\ votes_handled = 2
    /\ active_poll_info = Cleared
    /\ poll_answers = EmptyDict
    /\ \A t \in Tasks : pc[t] = "idle"

\* C6: a close that starts with pollId or messageId unset returns at once with a
\* warning: it changes no store, starts no request, and raises nothing.
C6_CloseWithoutPollIsNoOp ==
    [][\A t \in CloseTasks :
         (StopPollEnter(t)
            /\ (active_poll_info.poll_id = None \/ active_poll_info.message_id = None))
         => /\ UNCHANGED <<stores, pc, message, close_locals, platform>>
            /\ logged' = "no_active_poll"]_vars

\* a close has just returned with nothing to close, after a poll was closed
C6_Witness ==
    /\ logged = "no_active_poll"
    /\ active_poll_info = Cleared
    /\ next_poll = 1
    /\ \A t \in Tasks : pc[t] = "idle"

\* C7: a close that fails (stop_poll or send_message raises) is caught and leaves
\* ActivePoll, VoteTally (its pollId keys included) and DisplayNameCache as they
\* were when the close started (no other task having changed them meanwhile).
C7_FailedCloseChangesNothing ==
    [][\A t \in CloseTasks :
         (pc[t] \in ClosePcs /\ pc'[t] = "idle" /\ logged' = "close_failed"
            /\ start_state[t] # NoStart)
         => /\ active_poll_info' = start_state[t].active_poll_info
            /\ poll_answers' = start_state[t].poll_answers
            /\ user_display_names' = start_state[t].user_display_names]_vars

\* the summary of a poll nobody voted in
ZeroVotesSummary == "Result: wanna play?\n\nplay(0): none\nnope(0): none\n"

\* C8: the summary a close builds when its stop request returns and every option
\* list of its poll is empty names both options, each with 0 voters and the
\* placeholder instead of names.
C8_ZeroVotesSummary ==
    [][\A t \in CloseTasks :
         (/\ pc[t] = "stop_poll"
          /\ pc'[t] = "send_summary"
          /\ \A i \in DOMAIN poll_answers'[poll_id[t]] :
                 poll_answers'[poll_id[t]][i] = <<>>)
         => summary'[t] = ZeroVotesSummary]_vars

\* the scheduled close sends the summary of a poll no answer was handled for
C8_Witness ==
    /\ pc["sched_close"] = "send_summary"
    /\ votes_handled = 0
    /\ poll_answers = [p \in {poll_id["sched_close"]} |-> EmptyDict]
    /\ summary["sched_close"] = ZeroVotesSummary

\* C9: wea_handler sends the photo only for status 200; for any other status it
\* sends the load-failed text.
C9_NonOkStatusLoadFailed ==
    /\ pc["dispatcher"] = "reply_photo" => status_code = 200
    /\ (status_code # None /\ status_code # 200)
          => pc["dispatcher"] = "reply_load_failed"

\* the image server answered 404 and the load-failed text is on its way
C9_Witness ==
    /\ status_code = 404
    /\ pc["dispatcher"] = "reply_load_failed"

\* C10: a close clears only the ActivePoll it stopped: when a close clears
\* ActivePoll, the pollId held there is the one the close read at its start.
C10_CloseClearsOnlyItsOwnPoll ==
    [][\A t \in CloseTasks :
         (pc[t] = "send_summary" /\ pc'[t] = "idle"
            /\ active_poll_info.poll_id # None /\ active_poll_info'.poll_id = None)
         => active_poll_info.poll_id = poll_id[t]]_vars

\* a close ends with the summary sent and ActivePoll cleared
SuccessfulClose ==
    \E t \in CloseTasks :
        pc[t] = "send_summary" /\ pc'[t] = "idle" /\ logged' = "nothing"

\* C11: after a failed close the poll stays marked active: until a close
\* succeeds, ActivePoll keeps the pollId it had at the failure, no poll is
\* created and every open that starts is refused; and ActivePoll.pollId is only
\* ever cleared by a successful close.
C11_FailedCloseKeepsPollActive ==
    [][/\ failed_close # None
            => /\ active_poll_info.poll_id = failed_close
               /\ next_poll' = next_poll
               /\ \A t \in OpenTasks :
                     (pc[t] = "idle" /\ pc'[t] \in OpenPcs) => pc'[t] \in RefusedPcs
               /\ active_poll_info' # active_poll_info
                     => SuccessfulClose /\ active_poll_info' = Cleared
       /\ (active_poll_info.poll_id # None /\ active_poll_info'.poll_id = None)
            => SuccessfulClose]_vars

\* C12: every pollId key of VoteTally is the pollId of the current ActivePoll:
\* no entry exists for a poll that is closed or not recorded as active.
C12_TallyKeysAreActivePoll ==
    \A p \in DOMAIN poll_answers : p = active_poll_info.poll_id

\* the label a member is shown with: "@" and the username, else the full name
LabelOf(u) == IF u % 2 = 1 THEN "@user" \o ToString(u) ELSE "Member " \o ToString(u)

\* the labels of a list of users, in list order
RECURSIVE Listing(_)
Listing(list) ==
    IF Len(list) = 1 THEN LabelOf(list[1])
    ELSE LabelOf(list[1]) \o ", " \o Listing(Tail(list))

\* the line that reports option text with the users of list
ReportLine(text, list) ==
    text \o "(" \o ToString(Len(list)) \o "): "
         \o (IF list = <<>> THEN "none" ELSE Listing(list)) \o "\n"

\* the list of option i in a poll's tally
ListOf(tally, i) == IF i \in DOMAIN tally THEN tally[i] ELSE <<>>

\* C13: the summary a close builds when its stop request returns reports, for
\* option 0 and option 1, the users of VoteTally[pollId][i] at that moment, in
\* list order and with the list length as count; every user is then listed
\* under exactly the options of the latest answer handled; and the summary is
\* not changed before it is sent.
C13_SummaryReportsTally ==
    [][\A t \in CloseTasks :
         /\ (pc[t] = "stop_poll" /\ pc'[t] = "send_summary")
               => LET tally == poll_answers'[poll_id[t]]
                  IN /\ summary'[t] = "Result: wanna play?\n\n"
                                         \o ReportLine("play", ListOf(tally, 0))
                                         \o ReportLine("nope", ListOf(tally, 1))
                     /\ \A u \in Users :
                           OptionsOf(tally, u) =
                              {last_vote[poll_id[t]][u][k] :
                                  k \in 1..Len(last_vote[poll_id[t]][u])}
         /\ (pc[t] = "send_summary" /\ pc'[t] # "idle") => summary'[t] = summary[t]]_vars

\* member 2 then member 1 chose option 0; the close is about to send the summary
C13_Witness ==
    /\ pc["sched_close"] = "send_summary"
    /\ poll_id["sched_close"] \in DOMAIN poll_answers
    /\ poll_answers[poll_id["sched_close"]] = [i \in {0} |-> <<2, 1>>]
    /\ summary["sched_close"] =
          "Result: wanna play?\n\nplay(2): Member 2, @user1\nnope(0): none\n"

\* C14: an option list holds no user twice, and its users stand in the order in
\* which their latest answers to the poll were handled (a user who answers
\* again, even with the same option, is behind everyone who answered before).
C14_ListsOrderedByArrival ==
    \A p \in DOMAIN poll_answers : \A i \in DOMAIN poll_answers[p] :
        LET list == poll_answers[p][i]
        IN \A a, b \in 1..Len(list) :
              a < b => /\ list[a] # list[b]
                       /\ vote_time[p][list[a]] < vote_time[p][list[b]]

\* poll 1, never stopped, has had three answers, none for option 1: member 2
\* gave the second and member 1 the third, and member 1 is last in the list
C14_Witness ==
    /\ next_poll = 1
    /\ open_polls = {1}
    /\ votes_handled = 3
    /\ 1 \in DOMAIN poll_answers
    /\ poll_answers[1] = [i \in {0} |-> <<2, 1>>]
    /\ vote_time[1] = [u \in Users |-> IF u = 1 THEN 3 ELSE 2]

\* C15: an open that is refused (a poll is active) only notifies: whether the
\* notice is delivered or send_message raises, start_poll_by_bot ends without
\* an exception leaving it, creates no poll, and leaves ActivePoll as it is.
C15_NotifyFailureIsCaught ==
    [][\A t \in OpenTasks :
         /\ (pc[t] = "idle" /\ pc'[t] = "notify")
               => UNCHANGED <<active_poll_info, next_poll, open_polls>>
         /\ (pc[t] = "notify" /\ pc'[t] # "notify")
               => /\ pc'[t] = "idle"
                  /\ raised' = FALSE
                  /\ UNCHANGED <<active_poll_info, next_poll, open_polls, message>>]_vars

\* the notice of a refused scheduled open has just failed; poll 1 is still the
\* ActivePoll and the only poll created
C15_Witness ==
    /\ logged = "notify_skipped"
    /\ raised = FALSE
    /\ pc["sched_open"] = "idle"
    /\ active_poll_info = [message_id |-> MessageIdOf(1), poll_id |-> 1]
    /\ next_poll = 1

\* every user of every option list of the tally
ListedVoters(answers) ==
    UNION {UNION {Voters(answers[p][i]) : i \in DOMAIN answers[p]} : p \in DOMAIN answers}

\* C16: every user in an option list of VoteTally has an entry in
\* DisplayNameCache (so a summary never falls back to the unknown name for a
\* listed voter), and no step removes an entry from DisplayNameCache.
C16_ListedVotersHaveNames ==
    [][/\ ListedVoters(poll_answers) \subseteq DOMAIN user_display_names
       /\ ListedVoters(poll_answers') \subseteq DOMAIN user_display_names'
       /\ DOMAIN user_display_names \subseteq DOMAIN user_display_names']_vars

\* member 2, who has no username, is under option 1 of poll 1 and cached by
\* full name; member 1, whose answer chose no option, is cached and not listed
C16_Witness ==
    /\ 1 \in DOMAIN poll_answers
    /\ poll_answers[1] = [i \in {1} |-> <<2>>]
    /\ user_display_names = [u \in {1, 2} |-> IF u = 1 THEN "@user1" ELSE "Member 2"]

\* C17: between steps ActivePoll has pollId and messageId both set or both
\* unset, and when set they are the ids of one poll the platform created.
C17_IdsSetTogether ==
    /\ (active_poll_info.poll_id = None) <=> (active_poll_info.message_id = None)
    /\ active_poll_info.poll_id # None
          => /\ active_poll_info.poll_id \in 1..next_poll
             /\ active_poll_info.message_id = MessageIdOf(active_poll_info.poll_id)

\* the first poll was closed and cleared, the second one is open and recorded
C17_Witness ==
    /\ active_poll_info = [message_id |-> MessageIdOf(2), poll_id |-> 2]
    /\ open_polls = {2}
    /\ created_since_close = 1

\* C18: when send_poll raises in an open that passed the guard, the step
\* changes none of the stores, and ActivePoll is left unset (pollId and
\* messageId both cleared), so that the guard refuses no later open.
C18_FailedOpenChangesNothing ==
    [][\A t \in OpenTasks :
         (pc[t] = "send_poll" /\ pc'[t] = "idle" /\ raised')
         => /\ UNCHANGED <<active_poll_info, poll_answers, user_display_names>>
            /\ active_poll_info' = Cleared
            /\ ~PollActive(active_poll_info')]_vars
====
